---- MODULE Spec2Model ----
(***************************************************************************)
(* Tech Hub Intern Management System (src/main-task.py).                   *)
(*                                                                         *)
(* A TechHub owns a fixed list of divisions and a list of Attachee         *)
(* records.  Each Attachee holds a list of tasks, a feedback dictionary    *)
(* and a scores dictionary keyed by task name, and a cached                *)
(* average_score.                                                          *)
(*                                                                         *)
(* Strings that the code inspects character by character (names, through   *)
(* str.lower) are sequences of one-character strings; a message built by   *)
(* an f-string is the sequence of its fragments.  average_score is the     *)
(* exact rational sum/len, kept as a reduced pair <<numerator,             *)
(* denominator>>.  A method is an operator from the object and the         *)
(* arguments to the object afterwards and the value returned; an action    *)
(* is one call of a method by the driver.                                  *)
(***************************************************************************)
EXTENDS Integers, Sequences, FiniteSets, TLC

VARIABLES divisions,   \* TechHub.divisions
          attachees,   \* TechHub.attachees: sequence of Attachee records
          events       \* history: the assignments made and the scores accepted

vars == <<divisions, attachees, events>>

----------------------------------------------------------------------------
(* Bounds of the model and the inputs the calls are drawn from.            *)

MaxAttachees == 2
MaxTasks == 2
MaxEvents == 4

Names == { <<"A", "l">>, <<"a", "l">>, <<"B", "o">> }
DivisionInputs == {"Engineering", "Hub Support", "Marketing", "engineering"}
TaskNames == {"Fix bug", "Update docs"}
Feedbacks == {"Great work"}
ScoreInputs == {-1, 0, 10, 11}
HubTaskNames == {"Update docs"}
HubScoreInputs == {10, 11}
RecordNames == { <<"A", "l">> }
RecordDivisionInputs == {"Engineering", "Marketing"}
LawScoreInputs == {7, 10, 11}

----------------------------------------------------------------------------
(* Helpers: strings, dictionaries, exact arithmetic.                       *)

UpperCase == <<"A", "B", "C", "D", "E", "F", "G", "H", "I", "J", "K", "L", "M",
               "N", "O", "P", "Q", "R", "S", "T", "U", "V", "W", "X", "Y", "Z">>
LowerCase == <<"a", "b", "c", "d", "e", "f", "g", "h", "i", "j", "k", "l", "m",
               "n", "o", "p", "q", "r", "s", "t", "u", "v", "w", "x", "y", "z">>

\* str.lower on one character
LowerChar(c) ==
    IF \E k \in 1..Len(UpperCase) : UpperCase[k] = c
    THEN LowerCase[CHOOSE k \in 1..Len(UpperCase) : UpperCase[k] = c]
    ELSE c

\* str.lower
lower(s) == [k \in 1..Len(s) |-> LowerChar(s[k])]

\* x in list
InList(x, list) == \E k \in 1..Len(list) : list[k] = x

\* {}
EmptyDict == [k \in {} |-> 0]

\* d[key] = value
SetItem(d, key, value) ==
    [k \in (DOMAIN d) \cup {key} |-> IF k = key THEN value ELSE d[k]]

RECURSIVE SumValues(_, _)
\* sum(d.values()) over the keys in ks
SumValues(d, ks) ==
    IF ks = {} THEN 0
    ELSE LET k == CHOOSE x \in ks : TRUE
         IN  d[k] + SumValues(d, ks \ {k})

RECURSIVE GCD(_, _)
GCD(a, b) == IF b = 0 THEN a ELSE GCD(b, a % b)

\* floor division, as // would compute it
QuotientFloor(n, d) == <<n \div d, 1>>

\* the exact quotient n / d (n >= 0, d > 0) as a reduced fraction
Quotient(n, d) == LET g == GCD(n, d) IN <<n \div g, d \div g>>

\* the number 0
Zero == <<0, 1>>

----------------------------------------------------------------------------
(* class Attachee                                                          *)

\* Attachee.__init__
Attachee(name, division) ==
    [name          |-> name,
     division      |-> division,
     tasks         |-> <<>>,
     feedback      |-> EmptyDict,
     scores        |-> EmptyDict,
     average_score |-> Zero]

AssignedMsg(self, task) ==
    <<"Task '", task, "' assigned to ">> \o self.name
        \o <<" in ", self.division, " division.">>

FeedbackAddedMsg(self, task) ==
    <<"Feedback added for ">> \o self.name \o <<"'s task: '", task, "'">>

NotAssignedMsg(self, task) ==
    <<"Error: Task '", task, "' not assigned to ">> \o self.name \o <<".">>

ScoreAddedMsg(self, task, score) ==
    <<"Score of ", ToString(score), "/10 added for ">> \o self.name
        \o <<"'s task: '", task, "'">>

ScoreRangeMsg == <<"Error: Score must be between 0 and 10.">>

\* assign_task without the line that enters the task in scores
assign_task_no_score(self, task) ==
    [self |-> [self EXCEPT !.tasks    = Append(@, task),
                           !.feedback = SetItem(@, task, "")],
     ret  |-> AssignedMsg(self, task)]

\* assign_task that keeps the entries of a task name it already holds
assign_task_keep(self, task) ==
    [self |-> [self EXCEPT !.tasks    = Append(@, task),
                           !.feedback = IF task \in DOMAIN @ THEN @
                                        ELSE SetItem(@, task, ""),
                           !.scores   = IF task \in DOMAIN @ THEN @
                                        ELSE SetItem(@, task, 0)],
     ret  |-> AssignedMsg(self, task)]

\* Attachee.assign_task: the record afterwards and the value returned
assign_task(self, task) ==
    [self |-> [self EXCEPT !.tasks    = Append(@, task),
                           !.feedback = SetItem(@, task, ""),
                           !.scores   = SetItem(@, task, 0)],
     ret  |-> AssignedMsg(self, task)]

\* Attachee.add_feedback
add_feedback(self, task, feedback) ==
    IF InList(task, self.tasks)
    THEN [self |-> [self EXCEPT !.feedback = SetItem(@, task, feedback)],
          ret  |-> FeedbackAddedMsg(self, task)]
    ELSE [self |-> self, ret |-> NotAssignedMsg(self, task)]

\* Attachee._update_average_score
update_average_score(self) ==
    IF DOMAIN self.scores # {}
    THEN [self EXCEPT !.average_score =
              Quotient(SumValues(self.scores, DOMAIN self.scores),
                       Cardinality(DOMAIN self.scores))]
    ELSE [self EXCEPT !.average_score = Zero]

\* the range test with a strict upper end
ScoreInRangeBelowTen(score) == 0 <= score /\ score < 10

\* the range test of Attachee.add_score
ScoreInRange(score) == 0 <= score /\ score <= 10

\* add_score that tests the range before the task
add_score_range_first(self, task, score) ==
    IF 0 <= score /\ score <= 10
    THEN IF InList(task, self.tasks)
         THEN [self |-> update_average_score(
                            [self EXCEPT !.scores = SetItem(@, task, score)]),
               ret  |-> ScoreAddedMsg(self, task, score)]
         ELSE [self |-> self, ret |-> NotAssignedMsg(self, task)]
    ELSE [self |-> self, ret |-> ScoreRangeMsg]

\* Attachee.add_score
add_score(self, task, score) ==
    IF InList(task, self.tasks)
    THEN IF ScoreInRange(score)
         THEN [self |-> update_average_score(
                            [self EXCEPT !.scores = SetItem(@, task, score)]),
               ret  |-> ScoreAddedMsg(self, task, score)]
         ELSE [self |-> self, ret |-> ScoreRangeMsg]
    ELSE [self |-> self, ret |-> NotAssignedMsg(self, task)]

----------------------------------------------------------------------------
(* class TechHub                                                           *)

\* the list TechHub.__init__ builds
FourDivisions == <<"Engineering", "Tech Programs", "Radio Support", "Hub Support">>

AddedMsg(name, division) == name \o <<" added to ", division, " division.">>

InvalidDivisionMsg(division) == <<"Error: ", division, " is not a valid division.">>

BulkAssignedMsg(division, task) ==
    <<"Task '", task, "' assigned to all attachees in ", division, " division.">>

NoAttacheesMsg(division) == <<"No attachees found in ", division, " division.">>

\* get_attachee that keeps scanning and returns the last match
get_attachee_last(list, name) ==
    IF \E k \in 1..Len(list) : lower(list[k].name) = lower(name)
    THEN CHOOSE k \in 1..Len(list) :
            /\ lower(list[k].name) = lower(name)
            /\ \A j \in (k + 1)..Len(list) : lower(list[j].name) # lower(name)
    ELSE 0

\* TechHub.get_attachee: the position of the record returned, 0 for None
get_attachee(list, name) ==
    IF \E k \in 1..Len(list) : lower(list[k].name) = lower(name)
    THEN CHOOSE k \in 1..Len(list) :
            /\ lower(list[k].name) = lower(name)
            /\ \A j \in 1..(k - 1) : lower(list[j].name) # lower(name)
    ELSE 0

\* get_attachees_by_division without the filter on the division
get_attachees_by_division_all(divs, list, division) ==
    IF InList(division, divs) THEN [k \in 1..Len(list) |-> k] ELSE <<>>

\* TechHub.get_attachees_by_division: the positions of the records returned
get_attachees_by_division(divs, list, division) ==
    IF InList(division, divs)
    THEN SelectSeq([k \in 1..Len(list) |-> k], LAMBDA k : list[k].division = division)
    ELSE <<>>

\* add_attachee without the test of the division
add_attachee_unchecked(divs, list, name, division) ==
    [attachees |-> Append(list, Attachee(name, division)),
     ret       |-> AddedMsg(name, division)]

\* add_attachee that inserts the record at the front of the list
add_attachee_front(divs, list, name, division) ==
    IF InList(division, divs)
    THEN [attachees |-> <<Attachee(name, division)>> \o list,
          ret       |-> AddedMsg(name, division)]
    ELSE [attachees |-> list, ret |-> InvalidDivisionMsg(division)]

\* TechHub.add_attachee: the list afterwards and the value returned
add_attachee(divs, list, name, division) ==
    IF InList(division, divs)
    THEN [attachees |-> Append(list, Attachee(name, division)),
          ret       |-> AddedMsg(name, division)]
    ELSE [attachees |-> list, ret |-> InvalidDivisionMsg(division)]

\* the loop of assign_task_by_division: assign_task on every record found
AssignAll(list, found, task) ==
    [k \in 1..Len(list) |->
        IF InList(k, found) THEN assign_task(list[k], task).self ELSE list[k]]

\* TechHub.assign_task_by_division
assign_task_by_division(divs, list, division, task) ==
    IF InList(division, divs)
    THEN LET found == get_attachees_by_division(divs, list, division)
         IN  IF found # <<>>
             THEN [attachees |-> AssignAll(list, found, task),
                   ret       |-> BulkAssignedMsg(division, task)]
             ELSE [attachees |-> list, ret |-> NoAttacheesMsg(division)]
    ELSE [attachees |-> list, ret |-> InvalidDivisionMsg(division)]

----------------------------------------------------------------------------
(* The state after TechHub() and the calls a driver can make.              *)

\* number of entries in all task lists
RECURSIVE TotalTasks(_)
TotalTasks(list) ==
    IF list = <<>> THEN 0 ELSE Len(Head(list).tasks) + TotalTasks(Tail(list))

Init ==
    /\ divisions = FourDivisions
    /\ attachees = <<>>
    /\ events = <<>>

\* hub.add_attachee(name, division)
AddAttachee(name, division) ==
    /\ InList(division, divisions) => Len(attachees) < MaxAttachees
    /\ attachees' = add_attachee(divisions, attachees, name, division).attachees
    /\ UNCHANGED divisions

\* hub.get_attachee(name)
GetAttachee(name) ==
    /\ get_attachee(attachees, name) \in 0..Len(attachees)
    /\ UNCHANGED <<divisions, attachees>>

\* attachees[i].assign_task(task)
AssignTask(i, task) ==
    /\ i \in 1..Len(attachees)
    /\ TotalTasks(attachees) < MaxTasks
    /\ attachees' = [attachees EXCEPT ![i] = assign_task(@, task).self]
    /\ UNCHANGED divisions

\* attachees[i].add_feedback(task, feedback)
AddFeedback(i, task, feedback) ==
    /\ i \in 1..Len(attachees)
    /\ attachees' = [attachees EXCEPT ![i] = add_feedback(@, task, feedback).self]
    /\ UNCHANGED divisions

\* attachees[i].add_score(task, score)
AddScore(i, task, score) ==
    /\ i \in 1..Len(attachees)
    /\ attachees' = [attachees EXCEPT ![i] = add_score(@, task, score).self]
    /\ UNCHANGED divisions

\* hub.assign_task_by_division(division, task)
AssignTaskByDivision(division, task) ==
    /\ TotalTasks(attachees)
         + Len(get_attachees_by_division(divisions, attachees, division)) <= MaxTasks
    /\ attachees' = assign_task_by_division(divisions, attachees, division, task).attachees
    /\ UNCHANGED divisions

\* the calls of a driver that draws its arguments from the given sets
Driver(names, divs, tasks, feedbacks, scores) ==
    \/ \E n \in names, d \in divs : AddAttachee(n, d) /\ UNCHANGED events
    \/ \E n \in names : GetAttachee(n) /\ UNCHANGED events
    \/ \E i \in 1..MaxAttachees, t \in tasks : AssignTask(i, t) /\ UNCHANGED events
    \/ \E i \in 1..MaxAttachees, t \in tasks, f \in feedbacks :
          AddFeedback(i, t, f) /\ UNCHANGED events
    \/ \E i \in 1..MaxAttachees, t \in tasks, s \in scores :
          AddScore(i, t, s) /\ UNCHANGED events
    \/ \E d \in divs, t \in tasks : AssignTaskByDivision(d, t) /\ UNCHANGED events

\* a driver of the registry: many names and divisions, one task, two scores
NextHub == Driver(Names, DivisionInputs, HubTaskNames, Feedbacks, HubScoreInputs)

SpecHub == Init /\ [][NextHub]_vars

\* a driver of the records: one name, one division, many tasks and scores
NextRecord == Driver(RecordNames, RecordDivisionInputs, TaskNames, Feedbacks, ScoreInputs)

SpecRecord == Init /\ [][NextRecord]_vars

----------------------------------------------------------------------------
(* The same calls with their history kept: every assign_task call made on  *)
(* a record and every score add_score accepted, in the order of the calls. *)

Assigned(i, task) == [rec |-> i, kind |-> "assign", task |-> task, score |-> 0]

Scored(i, task, score) == [rec |-> i, kind |-> "score", task |-> task, score |-> score]

\* add_score returned its confirmation
Accepted(self, task, score) ==
    add_score(self, task, score).ret = ScoreAddedMsg(self, task, score)

NextLaw ==
    \/ \E n \in RecordNames, d \in RecordDivisionInputs : AddAttachee(n, d) /\ UNCHANGED events
    \/ \E n \in RecordNames : GetAttachee(n) /\ UNCHANGED events
    \/ \E i \in 1..MaxAttachees, t \in TaskNames :
          /\ Len(events) < MaxEvents
          /\ AssignTask(i, t)
          /\ events' = Append(events, Assigned(i, t))
    \/ \E i \in 1..MaxAttachees, t \in TaskNames, f \in Feedbacks :
          AddFeedback(i, t, f) /\ UNCHANGED events
    \/ \E i \in 1..MaxAttachees, t \in TaskNames, s \in LawScoreInputs :
          /\ Len(events) < MaxEvents
          /\ AddScore(i, t, s)
          /\ events' = IF Accepted(attachees[i], t, s)
                       THEN Append(events, Scored(i, t, s))
                       ELSE events
    \/ \E d \in RecordDivisionInputs, t \in TaskNames :
          LET found == get_attachees_by_division(divisions, attachees, d)
          IN  /\ Len(events) + Len(found) <= MaxEvents
              /\ AssignTaskByDivision(d, t)
              /\ events' = events \o [k \in 1..Len(found) |-> Assigned(found[k], t)]

SpecLaw == Init /\ [][NextLaw]_vars

----------------------------------------------------------------------------
(* Properties.                                                             *)

Records == 1..Len(attachees)

\* the four recognized division names
ValidDivisionNames == {"Engineering", "Tech Programs", "Radio Support", "Hub Support"}

\* the division strings the properties range over
AnyDivision == ValidDivisionNames \cup DivisionInputs

\* how many entries of the list equal x
Occurrences(list, x) == Cardinality({k \in 1..Len(list) : list[k] = x})

\* no entry of the list occurs twice
Distinct(list) == \A j, k \in 1..Len(list) : j # k => list[j] # list[k]

\* the position of the earliest record whose name equals name ignoring case
FirstMatch(list, name) ==
    CHOOSE k \in 1..Len(list) :
        /\ lower(list[k].name) = lower(name)
        /\ \A j \in 1..(k - 1) : lower(list[j].name) # lower(name)

\* some record of the list has a name that equals name ignoring case
Known(list, name) == \E k \in 1..Len(list) : lower(list[k].name) = lower(name)

\* C1 as stated: in every reachable state, for every valid division d and every
\* name n, add_attachee(n, d) followed by get_attachee(n) returns a record whose
\* division is d and whose task list is empty.
C1_AddThenGet ==
    \A n \in Names, d \in ValidDivisionNames :
        LET after == add_attachee(divisions, attachees, n, d).attachees
            k     == get_attachee(after, n)
        IN  /\ k # 0
            /\ after[k].division = d
            /\ after[k].tasks = <<>>

\* C1 amended: add_attachee(n, d) followed by get_attachee(n) returns the new
\* record (division d, no tasks) when no record already in the registry has a name
\* equal to n ignoring case; otherwise it returns the earliest such record, as it
\* was before the call.
C1_AddThenGetFirstMatch ==
    \A n \in Names, d \in ValidDivisionNames :
        LET after == add_attachee(divisions, attachees, n, d).attachees
            k     == get_attachee(after, n)
        IN  IF Known(attachees, n)
            THEN /\ k = FirstMatch(attachees, n)
                 /\ after[k] = attachees[k]
            ELSE /\ k = Len(attachees) + 1
                 /\ after[k].division = d
                 /\ after[k].tasks = <<>>

\* two records with different names, the later one added after the earlier one
\* was given a task, and found by its own name
C1_Witness ==
    /\ Len(attachees) = 2
    /\ ~Known(<<attachees[1]>>, attachees[2].name)
    /\ attachees[1].tasks # <<>>
    /\ get_attachee(attachees, attachees[2].name) = 2
    /\ attachees[2].tasks = <<>>

\* C2: in every reachable state every record's average_score is the mean of the
\* values of its scores dictionary (average_score * len(scores) = sum of the
\* values), and is 0 when scores is empty.
C2_AverageIsMean ==
    \A i \in Records :
        LET self == attachees[i]
            keys == DOMAIN self.scores
        IN  IF keys = {}
            THEN self.average_score = Zero
            ELSE self.average_score[1] * Cardinality(keys)
                     = SumValues(self.scores, keys) * self.average_score[2]

\* the calls made on record i, in order
EventsOf(i) == SelectSeq(events, LAMBDA e : e.rec = i)

\* the number of events of a kind on a task
Count(ev, kind, task) ==
    Cardinality({k \in 1..Len(ev) : ev[k].kind = kind /\ ev[k].task = task})

\* every assignment has been followed by exactly one accepted score of its own:
\* per task name as many scores as assignments, and never more scores than
\* assignments so far
EachAssignedThenScoredOnce(ev) ==
    \A t \in TaskNames :
        /\ Count(ev, "score", t) = Count(ev, "assign", t)
        /\ \A n \in 0..Len(ev) :
              Count(SubSeq(ev, 1, n), "score", t) <= Count(SubSeq(ev, 1, n), "assign", t)

RECURSIVE SumScored(_)
\* s1 + ... + sk: the sum of the scores accepted
SumScored(ev) ==
    IF ev = <<>> THEN 0
    ELSE (IF Head(ev).kind = "score" THEN Head(ev).score ELSE 0) + SumScored(Tail(ev))

\* C3 as stated: on a record, once each of the k >= 1 assigned tasks t1..tk has
\* been assigned and then scored exactly once with s1..sk, average_score * k
\* equals s1 + ... + sk, whatever the task names.
C3_AverageLaw ==
    \A i \in Records :
        LET self == attachees[i]
            ev   == EventsOf(i)
            k    == Len(self.tasks)
        IN  (k >= 1 /\ EachAssignedThenScoredOnce(ev))
                => self.average_score[1] * k = SumScored(ev) * self.average_score[2]

\* C3 amended: the same law for task names t1..tk that are pairwise distinct.
C3_AverageLawDistinct ==
    \A i \in Records :
        LET self == attachees[i]
            ev   == EventsOf(i)
            k    == Len(self.tasks)
        IN  (k >= 1 /\ Distinct(self.tasks) /\ EachAssignedThenScoredOnce(ev))
                => self.average_score[1] * k = SumScored(ev) * self.average_score[2]

\* a record with two different tasks, scored 7 and 10, whose average is 17/2
C3_Witness ==
    \E i \in Records :
        /\ Len(attachees[i].tasks) = 2
        /\ Distinct(attachees[i].tasks)
        /\ EachAssignedThenScoredOnce(EventsOf(i))
        /\ SumScored(EventsOf(i)) = 17
        /\ attachees[i].average_score = <<17, 2>>

\* C4: for every record and every task t in its task list, add_score(t, s) stores
\* s in scores[t] and returns the confirmation if and only if 0 <= s <= 10;
\* otherwise it returns the score-range error and leaves the whole record as it
\* was.
C4_ScoreRange ==
    \A i \in Records, t \in TaskNames, s \in ScoreInputs \cup (0..10) :
        LET self == attachees[i]
            r    == add_score(self, t, s)
        IN  InList(t, self.tasks) =>
                IF 0 <= s /\ s <= 10
                THEN /\ r.ret = ScoreAddedMsg(self, t, s)
                     /\ r.self.scores[t] = s
                ELSE /\ r.ret = ScoreRangeMsg
                     /\ r.ret # ScoreAddedMsg(self, t, s)
                     /\ r.self = self

\* a record holds the score 10 for a task, and 11 is refused for that task
C4_Witness ==
    \E i \in Records, t \in TaskNames :
        /\ InList(t, attachees[i].tasks)
        /\ attachees[i].scores[t] = 10
        /\ attachees[i].average_score # Zero
        /\ add_score(attachees[i], t, 11).ret = ScoreRangeMsg

\* C5: for every string d that is not one of the four division names,
\* add_attachee(n, d) returns the invalid-division error naming d and leaves the
\* list of attachees as it was.
C5_InvalidDivision ==
    \A n \in Names, d \in AnyDivision \ ValidDivisionNames :
        LET r == add_attachee(divisions, attachees, n, d)
        IN  /\ r.ret = InvalidDivisionMsg(d)
            /\ r.attachees = attachees

\* a registry with two records, one with a task, refuses "engineering"
C5_Witness ==
    /\ Len(attachees) = 2
    /\ \E i \in Records : attachees[i].tasks # <<>>
    /\ add_attachee(divisions, attachees, <<"B", "o">>, "engineering").ret
           = InvalidDivisionMsg("engineering")

\* C6: for every record and every task name t outside its task list, add_feedback
\* and add_score, whatever the feedback and the score, return the
\* task-not-assigned error and leave the record as it was, with no key t in
\* feedback or scores.
C6_Unassigned ==
    \A i \in Records, t \in TaskNames :
        LET self == attachees[i]
        IN  ~InList(t, self.tasks) =>
                /\ \A f \in Feedbacks \cup {""} :
                      LET r == add_feedback(self, t, f)
                      IN  /\ r.ret = NotAssignedMsg(self, t)
                          /\ r.self = self
                          /\ t \notin DOMAIN r.self.feedback
                /\ \A s \in ScoreInputs :
                      LET r == add_score(self, t, s)
                      IN  /\ r.ret = NotAssignedMsg(self, t)
                          /\ r.self = self
                          /\ t \notin DOMAIN r.self.scores

\* a record with one scored task is asked about a task it was never given
C6_Witness ==
    \E i \in Records, t \in TaskNames, u \in TaskNames :
        /\ attachees[i].tasks = <<u>>
        /\ attachees[i].scores[u] = 10
        /\ t # u
        /\ add_score(attachees[i], t, 11).ret = NotAssignedMsg(attachees[i], t)
        /\ add_feedback(attachees[i], t, "Great work").self = attachees[i]

\* what assign_task_by_division(d, t) returns and does to the list
BulkAssignEffect(d, t) ==
    LET r        == assign_task_by_division(divisions, attachees, d, t)
        matching == {k \in Records : attachees[k].division = d}
    IN  IF d \in ValidDivisionNames /\ matching # {}
        THEN /\ r.ret = BulkAssignedMsg(d, t)
             /\ Len(r.attachees) = Len(attachees)
             /\ \A k \in Records :
                   IF k \in matching
                   THEN /\ r.attachees[k].tasks = Append(attachees[k].tasks, t)
                        /\ t \in DOMAIN r.attachees[k].feedback
                        /\ t \in DOMAIN r.attachees[k].scores
                   ELSE r.attachees[k] = attachees[k]
        ELSE /\ r.attachees = attachees
             /\ r.ret = IF d \in ValidDivisionNames
                        THEN NoAttacheesMsg(d)
                        ELSE InvalidDivisionMsg(d)

\* a call of add_feedback or add_score on record i leaves every other record as
\* it was
OthersUntouched ==
    \A i \in Records, t \in TaskNames :
        ((\E f \in Feedbacks : AddFeedback(i, t, f))
            \/ (\E s \in ScoreInputs : AddScore(i, t, s)))
        => \A k \in Records : k # i => attachees'[k] = attachees[k]

\* C7: assign_task_by_division(d, t) with d valid and at least one attachee in d
\* appends t to the tasks of every attachee of d, with a feedback and a scores
\* entry of its own, and leaves the attachees of other divisions as they were;
\* with d valid and empty, or d invalid, it returns the corresponding message and
\* changes no record; and a later add_feedback or add_score on one attachee
\* changes no other attachee.
C7_BulkAssign ==
    /\ [](\A d \in AnyDivision, t \in TaskNames : BulkAssignEffect(d, t))
    /\ [][OthersUntouched]_vars

\* two attachees of one division hold the same task; one has been scored and
\* given feedback, the other still has the entries of the assignment
C7_Witness ==
    /\ Len(attachees) = 2
    /\ attachees[1].division = attachees[2].division
    /\ attachees[1].tasks = <<"Update docs">>
    /\ attachees[2].tasks = <<"Update docs">>
    /\ attachees[1].scores["Update docs"] = 10
    /\ attachees[1].feedback["Update docs"] = "Great work"
    /\ attachees[2].scores["Update docs"] = 0
    /\ attachees[2].feedback["Update docs"] = ""

\* C8: in every reachable state, every task name in a record's task list is a key
\* of its feedback and of its scores, and every value in scores lies in [0, 10].
C8_KeysAndRange ==
    \A i \in Records :
        LET self == attachees[i]
        IN  /\ \A k \in 1..Len(self.tasks) :
                  /\ self.tasks[k] \in DOMAIN self.feedback
                  /\ self.tasks[k] \in DOMAIN self.scores
            /\ \A t \in DOMAIN self.scores :
                  0 <= self.scores[t] /\ self.scores[t] <= 10

\* a record with two tasks, one scored 10 and one still at 0
C8_Witness ==
    \E i \in Records :
        /\ Len(attachees[i].tasks) = 2
        /\ \E t, u \in DOMAIN attachees[i].scores :
              attachees[i].scores[t] = 10 /\ attachees[i].scores[u] = 0

\* C9: assign_task(t) always succeeds and appends one entry t at the end of
\* tasks; it sets feedback[t] to "" and scores[t] to 0, also when t was already in
\* tasks with a feedback and a score, and leaves the feedback and scores entries
\* of every other task name as they were.
C9_AssignTask ==
    \A i \in Records, t \in TaskNames :
        LET self == attachees[i]
            r    == assign_task(self, t)
        IN  /\ r.ret = AssignedMsg(self, t)
            /\ r.self.tasks = Append(self.tasks, t)
            /\ Occurrences(r.self.tasks, t) = Occurrences(self.tasks, t) + 1
            /\ r.self.feedback[t] = ""
            /\ r.self.scores[t] = 0
            /\ DOMAIN r.self.feedback = DOMAIN self.feedback \cup {t}
            /\ DOMAIN r.self.scores = DOMAIN self.scores \cup {t}
            /\ \A u \in DOMAIN self.feedback \ {t} : r.self.feedback[u] = self.feedback[u]
            /\ \A u \in DOMAIN self.scores \ {t} : r.self.scores[u] = self.scores[u]

\* a task scored 10 was assigned a second time: two entries of it, its score and
\* its feedback back at 0 and "", the average still the one of the score
C9_Witness ==
    \E i \in Records, t \in TaskNames :
        /\ attachees[i].tasks = <<t, t>>
        /\ attachees[i].scores[t] = 0
        /\ attachees[i].feedback[t] = ""
        /\ attachees[i].average_score = <<10, 1>>

\* what one step may do to the registry
GrowsAtTheEnd ==
    /\ Len(attachees') >= Len(attachees)
    /\ \A k \in Records :
          /\ attachees'[k].name = attachees[k].name
          /\ attachees'[k].division = attachees[k].division
    /\ divisions' = divisions
    /\ divisions' = <<"Engineering", "Tech Programs", "Radio Support", "Hub Support">>
    /\ \A k \in 1..Len(attachees') : InList(attachees'[k].division, divisions')

\* C10: across every step, the list of attachees only grows at its end: no record
\* is removed or moved, no record's name or division changes, the divisions list
\* stays the same four names, and every record's division is one of them.
C10_AppendOnly == [][GrowsAtTheEnd]_vars

\* two records of different divisions, the first with a scored task
C10_Witness ==
    /\ Len(attachees) = 2
    /\ attachees[1].division # attachees[2].division
    /\ attachees[1].name # attachees[2].name
    /\ attachees[1].tasks # <<>>
    /\ attachees[1].average_score = <<10, 1>>

====
